---- MODULE Spec2Model ----
(***************************************************************************)
(* A model of zehn, an ELF reader/writer/mutator.                          *)
(*                                                                         *)
(*   - the primitive codec of util.rs (endianness-aware integers, C        *)
(*     strings, align_to), at the level of bytes;                          *)
(*   - the Header / ProgramHeader / SectionHeader / Symbol codecs, each    *)
(*     with the field order and widths its read and its write use;         *)
(*   - Object::update, Object::write and Object::read, and the caller's    *)
(*     mutations of the public fields of an Object.                        *)
(*                                                                         *)
(* Integers are naturals below 2^31; an "as u32" narrowing is the low four *)
(* bytes of the value, which is what the byte encoders compute.            *)
(***************************************************************************)
EXTENDS Integers, Sequences, FiniteSets, TLC

VARIABLES
    obj,      \* the Object the caller holds
    stream,   \* the bytes of the file image (a Cursor<Vec<u8>>)
    op,       \* the last operation of the Object life cycle
    result,   \* its outcome: "ok", an error kind, or "panic"
    build,    \* "debug" (overflow checks on) or "release" (wrapping)
    edits,    \* how many caller mutations happened so far
    codec     \* the codec experiment: one value written and read back

vars == <<obj, stream, op, result, build, edits, codec>>

-----------------------------------------------------------------------------
(* Small helpers.                                                          *)

Min(a, b) == IF a < b THEN a ELSE b
Max(a, b) == IF a < b THEN b ELSE a

\* The sequence f, with its elements computed once (the same value as f).
Vec(f) == f \o <<>>

\* The value of a function of one argument: the(f) with f = [x \in {v} |-> e]
\* is e with x standing for the value of v, which is computed here and not
\* again wherever e uses it.
the(f) == f[CHOOSE x \in DOMAIN f : TRUE]

Zeros(n) == [i \in 1..n |-> 0]

RECURSIVE Flatten(_)
Flatten(ss) == IF ss = <<>> THEN <<>> ELSE Head(ss) \o Flatten(Tail(ss))

RECURSIVE SumSeq(_)
SumSeq(s) == IF s = <<>> THEN 0 ELSE Head(s) + SumSeq(Tail(s))

Pow2_16 == 65536

-----------------------------------------------------------------------------
(* util.rs: the primitive codec.                                           *)

\* v >> (8 * k)
RECURSIVE Shr8(_, _)
Shr8(v, k) == IF k = 0 \/ v = 0 THEN v ELSE Shr8(v \div 256, k - 1)

\* uN::to_le_bytes / to_be_bytes of the low n bytes of v
ToLeBytes(v, n) == [i \in 1..n |-> Shr8(v, i - 1) % 256]
ToBeBytes(v, n) == [i \in 1..n |-> Shr8(v, n - i) % 256]

\* The model's integers end at 2^31 - 1: a decoded value that does not fit is
\* held at IntCap, which stands for every value from there on.
TopByte == 128 * 65536
IntCap == (TopByte - 1) * 256 + 255

\* uN::from_le_bytes / from_be_bytes
RECURSIVE FromLeBytes(_)
FromLeBytes(bs) ==
    IF bs = <<>> THEN 0
    ELSE the([t \in {FromLeBytes(Tail(bs))} |->
             IF t >= TopByte THEN IntCap ELSE Head(bs) + 256 * t])

RECURSIVE FromBeBytes(_)
FromBeBytes(bs) ==
    IF bs = <<>> THEN 0
    ELSE the([t \in {FromBeBytes(SubSeq(bs, 1, Len(bs) - 1))} |->
             IF t >= TopByte THEN IntCap ELSE 256 * t + bs[Len(bs)]])

\* WriteExt::write_u8 / write_u16 / write_u32 / write_u64: the bytes emitted.
\* A single byte has no byte order.
WriteUInt(endian, v, n) ==
    IF endian = "Little" THEN ToLeBytes(v, n) ELSE ToBeBytes(v, n)

\* ReadExt::read_u8 / read_u16 / read_u32 / read_u64 on the n bytes obtained.
ReadUInt(endian, bs) ==
    IF endian = "Little" THEN FromLeBytes(bs) ELSE FromBeBytes(bs)

\* ReadExt::read_bytes::<n> at offset pos (0-based) of the source: it calls
\* Read::read once and ignores how many bytes came back, so what the source
\* does not hold stays at the buffer's initial zero.
ReadBytes(src, pos, n) ==
    Vec([i \in 1..n |-> IF pos + i <= Len(src) THEN src[pos + i] ELSE 0])

\* A wrong write_cstr: the terminating zero is missing.
WriteCstr_noNul(name) == name

\* WriteExt::write_cstr: the bytes appended, the value returned is their count.
WriteCstr(name) == name \o <<0>>

\* The bytes ReadExt::read_cstr collects from offset pos: up to the first zero
\* byte, or up to the end of the source (read_u8 then yields the zero of an
\* untouched buffer).
RECURSIVE CstrBytes(_, _)
CstrBytes(src, pos) ==
    IF pos >= Len(src) \/ src[pos + 1] = 0 THEN <<>>
    ELSE <<src[pos + 1]>> \o CstrBytes(src, pos + 1)

\* String::from_utf8: is the byte sequence well-formed UTF-8?
IsCont(b) == b >= 128 /\ b <= 191

RECURSIVE Utf8Valid(_)
Utf8Valid(bs) ==
    IF bs = <<>> THEN TRUE
    ELSE LET b == bs[1]
             n == Len(bs)
         IN  IF b < 128 THEN Utf8Valid(Tail(bs))
             ELSE IF b >= 194 /\ b <= 223
                  THEN n >= 2 /\ IsCont(bs[2]) /\ Utf8Valid(SubSeq(bs, 3, n))
             ELSE IF b >= 224 /\ b <= 239
                  THEN /\ n >= 3
                       /\ IsCont(bs[2]) /\ IsCont(bs[3])
                       /\ (b = 224 => bs[2] >= 160)
                       /\ (b = 237 => bs[2] <= 159)
                       /\ Utf8Valid(SubSeq(bs, 4, n))
             ELSE IF b >= 240 /\ b <= 244
                  THEN /\ n >= 4
                       /\ IsCont(bs[2]) /\ IsCont(bs[3]) /\ IsCont(bs[4])
                       /\ (b = 240 => bs[2] >= 144)
                       /\ (b = 244 => bs[2] <= 143)
                       /\ Utf8Valid(SubSeq(bs, 5, n))
             ELSE FALSE

\* A wrong align_to: never rounds.
align_to_noround(pos, align) == pos

\* align_to(pos, align)
align_to(pos, align) ==
    IF align = 0 THEN pos
    ELSE IF pos % align = 0 THEN pos
    ELSE pos + (align - (pos % align))

-----------------------------------------------------------------------------
(* The codecs: each layout lists <<field, width in bytes>> in the order    *)
(* the function reads or writes the fields.                                *)

ClassByte(class) == IF class = "Bits32" THEN 1 ELSE 2
DataByte(data)   == IF data = "Little" THEN 1 ELSE 2

ELFMAG == <<127, 69, 76, 70>>

W(class) == IF class = "Bits32" THEN 4 ELSE 8

LayoutSize(layout) == SumSeq([i \in 1..Len(layout) |-> layout[i][2]])

LayoutOffset(layout, i) == SumSeq([j \in 1..(i - 1) |-> layout[j][2]])

LayoutFields(layout) == {layout[i][1] : i \in 1..Len(layout)}

LayoutIndex(layout, f) == CHOOSE i \in 1..Len(layout) : layout[i][1] = f

\* The bytes a write function emits for value v.
EncodeFields(layout, endian, v) ==
    Flatten([i \in 1..Len(layout) |-> WriteUInt(endian, v[layout[i][1]], layout[i][2])])

\* The value a read function builds from the source, starting at offset pos:
\* the fields from the i-th on, each read where the previous one ended.
RECURSIVE DecodeFrom(_, _, _, _, _)
DecodeFrom(layout, endian, src, pos, i) ==
    LET f == layout[i][1]
        w == layout[i][2]
        v == ReadUInt(endian, ReadBytes(src, pos, w))
    IN  IF i = Len(layout) THEN f :> v
        ELSE (f :> v) @@ DecodeFrom(layout, endian, src, pos + w, i + 1)

DecodeFields(layout, endian, src, pos) == DecodeFrom(layout, endian, src, pos, 1)

\* Header::read, after e_ident
HeaderReadLayout(class) ==
    << <<"e_type", 2>>, <<"e_machine", 2>>, <<"e_version", 4>>,
       <<"e_entry", W(class)>>, <<"e_phoff", W(class)>>, <<"e_shoff", W(class)>>,
       <<"e_flags", 4>>, <<"e_ehsize", 2>>, <<"e_phentsize", 2>>, <<"e_phnum", 2>>,
       <<"e_shentsize", 2>>, <<"e_shnum", 2>>, <<"e_shstrndx", 2>> >>

\* Header::write, after e_ident
HeaderWriteLayout(class) ==
    << <<"e_type", 2>>, <<"e_machine", 2>>, <<"e_version", 4>>,
       <<"e_entry", W(class)>>, <<"e_phoff", W(class)>>, <<"e_shoff", W(class)>>,
       <<"e_flags", 4>>, <<"e_ehsize", 2>>, <<"e_phentsize", 2>>, <<"e_phnum", 2>>,
       <<"e_shentsize", 2>>, <<"e_shnum", 2>>, <<"e_shstrndx", 2>> >>

\* The e_ident bytes Header::write emits first.
IdentLayout ==
    << <<"ei_version", 1>>, <<"ei_osabi", 1>>, <<"ei_abiversion", 1>> >>

IdentSize == 4 + 1 + 1 + LayoutSize(IdentLayout) + 7

\* ProgramHeader::read
ProgramHeaderReadLayout(class) ==
    IF class = "Bits32"
    THEN << <<"p_type", 4>>, <<"p_offset", 4>>, <<"p_vaddr", 4>>, <<"p_paddr", 4>>,
            <<"p_filesz", 4>>, <<"p_memsz", 4>>, <<"p_flags", 4>>, <<"p_align", 4>> >>
    ELSE << <<"p_type", 4>>, <<"p_flags", 4>>, <<"p_offset", 8>>, <<"p_vaddr", 8>>,
            <<"p_paddr", 8>>, <<"p_filesz", 8>>, <<"p_memsz", 8>>, <<"p_align", 8>> >>

\* A wrong ProgramHeader::write: the 64-bit field order for both classes.
ProgramHeaderWriteLayout_flagsFirst(class) ==
    << <<"p_type", 4>>, <<"p_flags", 4>>, <<"p_offset", W(class)>>,
       <<"p_vaddr", W(class)>>, <<"p_paddr", W(class)>>, <<"p_filesz", W(class)>>,
       <<"p_memsz", W(class)>>, <<"p_align", W(class)>> >>

\* ProgramHeader::write
ProgramHeaderWriteLayout(class) ==
    IF class = "Bits32"
    THEN << <<"p_type", 4>>, <<"p_offset", 4>>, <<"p_vaddr", 4>>, <<"p_paddr", 4>>,
            <<"p_filesz", 4>>, <<"p_memsz", 4>>, <<"p_flags", 4>>, <<"p_align", 4>> >>
    ELSE << <<"p_type", 4>>, <<"p_flags", 4>>, <<"p_offset", 8>>, <<"p_vaddr", 8>>,
            <<"p_paddr", 8>>, <<"p_filesz", 8>>, <<"p_memsz", 8>>, <<"p_align", 8>> >>

\* SectionHeader::read
SectionHeaderReadLayout(class) ==
    << <<"sh_name", 4>>, <<"sh_type", 4>>, <<"sh_flags", W(class)>>,
       <<"sh_addr", W(class)>>, <<"sh_offset", W(class)>>, <<"sh_size", W(class)>>,
       <<"sh_link", 4>>, <<"sh_info", 4>>, <<"sh_addralign", W(class)>>,
       <<"sh_entsize", W(class)>> >>

\* SectionHeader::write
SectionHeaderWriteLayout(class) ==
    << <<"sh_name", 4>>, <<"sh_type", 4>>, <<"sh_flags", W(class)>>,
       <<"sh_addr", W(class)>>, <<"sh_offset", W(class)>>, <<"sh_size", W(class)>>,
       <<"sh_link", 4>>, <<"sh_info", 4>>, <<"sh_addralign", W(class)>>,
       <<"sh_entsize", W(class)>> >>

\* Symbol::read
SymbolReadLayout(class) ==
    << <<"sym_name", 4>>, <<"sym_info", 1>>, <<"sym_other", 1>>, <<"sym_shndx", 2>>,
       <<"sym_value", W(class)>>, <<"sym_size", W(class)>> >>

\* Symbol::write
SymbolWriteLayout(class) ==
    << <<"sym_name", 4>>, <<"sym_info", 1>>, <<"sym_other", 1>>, <<"sym_shndx", 2>>,
       <<"sym_value", W(class)>>, <<"sym_size", W(class)>> >>

\* ProgramHeader::write / read
ProgramHeaderWrite(class, endian, ph) ==
    EncodeFields(ProgramHeaderWriteLayout(class), endian, ph)
ProgramHeaderRead(class, endian, src, pos) ==
    DecodeFields(ProgramHeaderReadLayout(class), endian, src, pos)
ProgramHeaderSize(class) == LayoutSize(ProgramHeaderReadLayout(class))

\* SectionHeader::write / read
SectionHeaderWrite(class, endian, sh) ==
    EncodeFields(SectionHeaderWriteLayout(class), endian, sh)
SectionHeaderRead(class, endian, src, pos) ==
    DecodeFields(SectionHeaderReadLayout(class), endian, src, pos)
SectionHeaderSize(class) == LayoutSize(SectionHeaderReadLayout(class))

\* Symbol::write / read
SymbolWrite(class, endian, sym) ==
    EncodeFields(SymbolWriteLayout(class), endian, sym)
SymbolRead(class, endian, src, pos) ==
    DecodeFields(SymbolReadLayout(class), endian, src, pos)
SymbolSize(class) == LayoutSize(SymbolReadLayout(class))

\* Header::write: e_ident, then the fields in the class's widths.
HeaderWrite(h) ==
    h.e_ident.ei_magic
    \o <<ClassByte(h.e_ident.ei_class), DataByte(h.e_ident.ei_data)>>
    \o EncodeFields(IdentLayout, h.e_ident.ei_data, h.e_ident)
    \o h.e_ident.ei_pad
    \o EncodeFields(HeaderWriteLayout(h.e_ident.ei_class), h.e_ident.ei_data, h)

\* Header::read: "ok" with the header, or the panic of a todo!() arm.  The
\* three matches are evaluated in order, each on the bytes read so far.
HeaderRead(src) ==
    LET magic == ReadBytes(src, 0, 4)
        cb    == ReadBytes(src, 4, 1)[1]
        db    == ReadBytes(src, 5, 1)[1]
        class == IF cb = 1 THEN "Bits32" ELSE "Bits64"
        data  == IF db = 1 THEN "Little" ELSE "Big"
        ident == [ei_magic |-> magic, ei_class |-> class, ei_data |-> data,
                  ei_version |-> ReadBytes(src, 6, 1)[1],
                  ei_osabi |-> ReadBytes(src, 7, 1)[1],
                  ei_abiversion |-> ReadBytes(src, 8, 1)[1],
                  ei_pad |-> ReadBytes(src, 9, 7)]
        rest  == DecodeFields(HeaderReadLayout(class), data, src, IdentSize)
    IN  IF magic # ELFMAG THEN [res |-> "panic", why |-> "magic"]
        ELSE IF cb \notin {1, 2} THEN [res |-> "panic", why |-> "class"]
        ELSE IF db \notin {1, 2} THEN [res |-> "panic", why |-> "endianness"]
        ELSE [res |-> "ok", why |-> "", header |-> ("e_ident" :> ident) @@ rest]

HeaderSize(class) == IdentSize + LayoutSize(HeaderReadLayout(class))

-----------------------------------------------------------------------------
(* The codec experiment: a value of one of the four structures is written  *)
(* with its write function and the bytes are read back with its read       *)
(* function, under the same class and endianness.  Between the two the     *)
(* bytes of a Header may be damaged, as a file on disk may be.             *)

MaxSeed == 3

Kinds    == {"Header", "ProgramHeader", "SectionHeader", "Symbol"}
Classes  == {"Bits32", "Bits64"}
Datas    == {"Little", "Big"}

\* The largest value a field of w bytes takes in the experiment.
FieldCap(w) == IF w = 1 THEN 256 ELSE IF w = 2 THEN 65536 ELSE 2147483647

\* A value for the i-th field of a structure: 0 for seed 0, otherwise a number
\* whose bytes differ from each other and from those of the other fields.
FieldValue(seed, i, w) ==
    IF seed = 0 THEN 0 ELSE (seed * 1000003 + i * 16449787) % FieldCap(w)

SampleFields(layout, seed) ==
    [f \in LayoutFields(layout) |->
        LET i == LayoutIndex(layout, f) IN FieldValue(seed, i, layout[i][2])]

SampleHeader(class, data, magic, seed) ==
    LET rest == SampleFields(HeaderWriteLayout(class), seed)
        ident == [ei_magic |-> magic, ei_class |-> class, ei_data |-> data,
                  ei_version |-> FieldValue(seed, 14, 1),
                  ei_osabi |-> FieldValue(seed, 15, 1),
                  ei_abiversion |-> FieldValue(seed, 16, 1),
                  ei_pad |-> [i \in 1..7 |-> FieldValue(seed, 16 + i, 1)]]
    IN  ("e_ident" :> ident) @@ rest

SampleValue(kind, class, data, magic, seed) ==
    CASE kind = "Header"        -> SampleHeader(class, data, magic, seed)
      [] kind = "ProgramHeader" -> SampleFields(ProgramHeaderWriteLayout(class), seed)
      [] kind = "SectionHeader" -> SampleFields(SectionHeaderWriteLayout(class), seed)
      [] kind = "Symbol"        -> SampleFields(SymbolWriteLayout(class), seed)

CodecIdle == [pc |-> "idle"]

CodecInputs ==
    { [pc |-> "init", kind |-> k, class |-> c, data |-> d,
       value |-> SampleValue(k, c, d, m, s),
       bytes |-> <<>>, written |-> 0, damaged |-> FALSE,
       res |-> "", why |-> "", back |-> <<>>] :
        k \in Kinds, c \in Classes, d \in Datas, s \in 0..MaxSeed,
        m \in {ELFMAG, Zeros(4)} }

\* The bytes the structure's write function emits.
CodecEncode(kind, class, data, v) ==
    CASE kind = "Header"        -> HeaderWrite(v)
      [] kind = "ProgramHeader" -> ProgramHeaderWrite(class, data, v)
      [] kind = "SectionHeader" -> SectionHeaderWrite(class, data, v)
      [] kind = "Symbol"        -> SymbolWrite(class, data, v)

\* The count the write function returns: the sum of what each write reported.
CodecWritten(kind, class) ==
    CASE kind = "Header"        -> 4 + 1 + 1 + LayoutSize(IdentLayout) + 7
                                   + LayoutSize(HeaderWriteLayout(class))
      [] kind = "ProgramHeader" -> LayoutSize(ProgramHeaderWriteLayout(class))
      [] kind = "SectionHeader" -> LayoutSize(SectionHeaderWriteLayout(class))
      [] kind = "Symbol"        -> LayoutSize(SymbolWriteLayout(class))

\* What the structure's read function returns on the bytes.
CodecDecode(kind, class, data, bytes) ==
    CASE kind = "Header"        -> HeaderRead(bytes)
      [] kind = "ProgramHeader" ->
            [res |-> "ok", why |-> "", header |-> ProgramHeaderRead(class, data, bytes, 0)]
      [] kind = "SectionHeader" ->
            [res |-> "ok", why |-> "", header |-> SectionHeaderRead(class, data, bytes, 0)]
      [] kind = "Symbol"        ->
            [res |-> "ok", why |-> "", header |-> SymbolRead(class, data, bytes, 0)]

CodecKeep == UNCHANGED <<obj, stream, op, result, build, edits>>

CodecWrite ==
    /\ codec.pc = "init"
    /\ codec' = [codec EXCEPT !.pc = "written",
                    !.bytes = CodecEncode(codec.kind, codec.class, codec.data, codec.value),
                    !.written = CodecWritten(codec.kind, codec.class)]
    /\ CodecKeep

\* The file's bytes are not the ones written: one of the six bytes that
\* Header::read matches on is replaced.
CodecDamage ==
    /\ codec.pc = "written"
    /\ codec.kind = "Header"
    /\ ~codec.damaged
    /\ \E i \in 1..6, b \in {0, 1, 2, 3} :
          /\ codec.bytes[i] # b
          /\ codec' = [codec EXCEPT !.bytes = [codec.bytes EXCEPT ![i] = b],
                                    !.damaged = TRUE]
    /\ CodecKeep

\* The file is cut short.
CodecTruncate ==
    /\ codec.pc = "written"
    /\ codec.kind = "Header"
    /\ ~codec.damaged
    /\ \E n \in {0, 3, 4, 5, 20} :
          codec' = [codec EXCEPT !.bytes = SubSeq(codec.bytes, 1, n), !.damaged = TRUE]
    /\ CodecKeep

CodecRead ==
    /\ codec.pc = "written"
    /\ \E r \in {CodecDecode(codec.kind, codec.class, codec.data, codec.bytes)} :
          codec' = [codec EXCEPT !.pc = "read", !.res = r.res, !.why = r.why,
                       !.back = IF r.res = "ok" THEN r.header ELSE <<>>]
    /\ CodecKeep

ObjIdle == [header |-> <<>>, segments |-> <<>>, sections |-> <<>>, symbols |-> <<>>,
            shstrtab |-> <<>>, strtab |-> <<>>]

CodecInit ==
    /\ codec \in CodecInputs
    /\ obj = ObjIdle
    /\ stream = <<>>
    /\ op = "idle"
    /\ result = "ok"
    /\ build = "debug"
    /\ edits = 0

CodecNext == CodecWrite \/ CodecDamage \/ CodecTruncate \/ CodecRead

SpecCodec == CodecInit /\ [][CodecNext]_vars

-----------------------------------------------------------------------------
(* object.rs: the Object.  The two IndexMaps are sequences of entries with *)
(* distinct names, in insertion order; a name is the sequence of its       *)
(* bytes.  An Option is the empty sequence or a sequence of one element.   *)

SYMTAB   == <<46, 115, 121, 109, 116, 97, 98>>             \* ".symtab"
STRTAB   == <<46, 115, 116, 114, 116, 97, 98>>             \* ".strtab"
SHSTRTAB == <<46, 115, 104, 115, 116, 114, 116, 97, 98>>   \* ".shstrtab"

PT_INTERP == 3
PT_PHDR   == 6

Names(map) == Vec([i \in 1..Len(map) |-> map[i].name])

\* IndexMap::get_index_of: the 1-based position of the name, 0 for None.
IndexOf(map, name) ==
    IF \E i \in 1..Len(map) : map[i].name = name
    THEN CHOOSE i \in 1..Len(map) : map[i].name = name
    ELSE 0

\* Object::find_section
find_section(o, name) ==
    LET i == IndexOf(o.sections, name)
    IN  IF i = 0 THEN <<>> ELSE <<o.sections[i]>>

\* A wrong find_section_idx: the position counted from 1.
find_section_idx_fromOne(o, name) ==
    LET i == IndexOf(o.sections, name)
    IN  IF i = 0 THEN <<>> ELSE <<i % Pow2_16>>

\* Object::find_section_idx (0-based, narrowed to u16)
find_section_idx(o, name) ==
    LET i == IndexOf(o.sections, name)
    IN  IF i = 0 THEN <<>> ELSE <<(i - 1) % Pow2_16>>

\* IndexMap::insert: a new name is appended, an existing name keeps its
\* position and gets the new value.
MapInsert(map, entry) ==
    LET i == IndexOf(map, entry.name)
    IN  IF i = 0 THEN Append(map, entry) ELSE [map EXCEPT ![i] = entry]

\* IndexMap::shift_remove / Vec::remove
RemoveAt(seq, i) == SubSeq(seq, 1, i - 1) \o SubSeq(seq, i + 1, Len(seq))

\* The offsets update assigns to the names of a table: 1 for the first, each
\* following one after the previous name and its terminating zero.
NameOffsets(names) ==
    Vec([i \in 1..Len(names) |-> 1 + SumSeq([j \in 1..(i - 1) |-> Len(names[j]) + 1])])

\* The body update builds for a name table: one zero byte, then every name
\* as a C string.
NameTable(names) ==
    <<0>> \o Flatten([i \in 1..Len(names) |-> WriteCstr(names[i])])

\* A wrong layout loop: the cursor never advances past a body.
SectionOffsets_noAdvance(secs, pos) ==
    Vec([i \in 1..Len(secs) |-> align_to(pos, secs[i].header.sh_addralign)])

\* The layout loop of update: each section's offset, the cursor starting at
\* pos and advancing by the body lengths.
RECURSIVE SectionOffsets(_, _)
SectionOffsets(secs, pos) ==
    IF secs = <<>> THEN <<>>
    ELSE the([p \in {align_to(pos, Head(secs).header.sh_addralign)} |->
             <<p>> \o SectionOffsets(Tail(secs), p + Len(Head(secs).body))])

\* A wrong new_phsize: the size of the whole table, not of its growth.
NewPhsize_total(bld, phentsize, phnum, old_phnum) == (phentsize * phnum) % Pow2_16

\* e_phentsize * (e_phnum - old_phnum) in u16 arithmetic: the value, or -1
\* where the build panics on overflow.
NewPhsize(bld, phentsize, phnum, old_phnum) ==
    LET d    == phnum - old_phnum
        diff == IF d < 0 THEN d + Pow2_16 ELSE d
        prod == phentsize * diff
    IN  IF bld = "debug" /\ (d < 0 \/ prod >= Pow2_16) THEN -1
        ELSE prod % Pow2_16

\* A wrong special-segment patch: PT_INTERP is left alone.
PatchSegment_noInterp(ph, phnum, phentsize, new_phsize) ==
    IF ph.p_type = PT_PHDR
    THEN [ph EXCEPT !.p_filesz = phnum * phentsize, !.p_memsz = phnum * phentsize]
    ELSE ph

\* The match on p_type at the end of update.
PatchSegment(ph, phnum, phentsize, new_phsize) ==
    IF ph.p_type = PT_PHDR
    THEN [ph EXCEPT !.p_filesz = phnum * phentsize, !.p_memsz = phnum * phentsize]
    ELSE IF ph.p_type = PT_INTERP
    THEN [ph EXCEPT !.p_offset = @ + new_phsize]
    ELSE ph

\* Object::update.  [res, why, obj]: res is "ok" or "panic"; a panic leaves
\* the caller nothing to look at, the Object is reported as it was.
Update(o, bld) ==
    IF IndexOf(o.sections, SYMTAB) = 0
        THEN [res |-> "panic", why |-> "no .symtab", obj |-> o]
    ELSE IF IndexOf(o.sections, STRTAB) = 0
        THEN [res |-> "panic", why |-> "no .strtab", obj |-> o]
    ELSE IF find_section_idx(o, SHSTRTAB) = <<>>
        THEN [res |-> "panic", why |-> "no .shstrtab", obj |-> o]
    ELSE
    the([h \in {o.header} |->
    the([old_phnum \in {h.e_phnum} |->
    the([phnum \in {Len(o.segments) % Pow2_16} |->
    \* the symbol table, from the symbols as they are before the loop below
    \* renumbers their names
    the([symtab_data \in {Flatten([i \in 1..Len(o.symbols) |->
                    SymbolWrite(h.e_ident.ei_class, h.e_ident.ei_data, o.symbols[i].sym)])} |->
    the([secs1 \in {Vec([i \in 1..Len(o.sections) |->
                IF o.sections[i].name = SYMTAB
                THEN [o.sections[i] EXCEPT !.header.sh_size = Len(symtab_data),
                                           !.body = symtab_data]
                ELSE o.sections[i]])} |->
    \* the symbol string table
    the([symnames \in {Names(o.symbols)} |->
    the([symoffs \in {NameOffsets(symnames)} |->
    the([syms1 \in {Vec([i \in 1..Len(o.symbols) |->
                [o.symbols[i] EXCEPT !.sym.sym_name = symoffs[i]]])} |->
    the([strtab_data \in {NameTable(symnames)} |->
    the([secs2 \in {Vec([i \in 1..Len(secs1) |->
                IF secs1[i].name = STRTAB
                THEN [secs1[i] EXCEPT !.header.sh_size = Len(strtab_data),
                                      !.body = strtab_data]
                ELSE secs1[i]])} |->
    \* the section string table
    the([secnames \in {Names(secs2)} |->
    the([shoffs \in {NameOffsets(secnames)} |->
    the([shstr_data \in {NameTable(secnames)} |->
    the([shstr_pos \in {1 + SumSeq([i \in 1..Len(secnames) |-> Len(secnames[i]) + 1])} |->
    the([secs3 \in {Vec([i \in 1..Len(secs2) |->
                IF secs2[i].name = SHSTRTAB
                THEN [secs2[i] EXCEPT !.header.sh_name = shoffs[i],
                                      !.body = shstr_data,
                                      !.header.sh_size = shstr_pos]
                ELSE [secs2[i] EXCEPT !.header.sh_name = shoffs[i]]])} |->
    the([shstrndx \in {find_section_idx(o, SHSTRTAB)} |->
    \* section offsets
    the([shnum \in {Len(secs3) % Pow2_16} |->
    the([start \in {h.e_ehsize + h.e_phentsize * phnum} |->
    the([offs \in {SectionOffsets(secs3, start)} |->
    the([secs4 \in {Vec([i \in 1..Len(secs3) |->
                [secs3[i] EXCEPT !.header.sh_offset = offs[i]]])} |->
    the([endpos \in {IF secs4 = <<>> THEN start
        ELSE offs[Len(offs)] + Len(secs4[Len(secs4)].body)} |->
    the([shoff \in {align_to(endpos, 16)} |->
    \* the special segments
    the([new_phsize \in {NewPhsize(bld, h.e_phentsize, phnum, old_phnum)} |->
    IF new_phsize < 0
        THEN [res |-> "panic", why |-> "overflow", obj |-> o]
    ELSE [res |-> "ok", why |-> "",
          obj |-> [o EXCEPT !.header.e_phnum = phnum,
                            !.header.e_shstrndx = shstrndx[1],
                            !.header.e_shnum = shnum,
                            !.header.e_shoff = shoff,
                            !.sections = secs4,
                            !.symbols = syms1,
                            !.segments =
                                Vec([i \in 1..Len(o.segments) |->
                                        PatchSegment(o.segments[i], phnum,
                                                     h.e_phentsize, new_phsize)])]]
    ])])])])])])])])])])])])])])])])])])])])])])])

-----------------------------------------------------------------------------
(* io.rs: Object::write and Object::read over a Cursor<Vec<u8>>.           *)

\* Cursor<Vec<u8>>::write at position pos: the vector is padded with zeros up
\* to pos, then the bytes replace or extend what is there.
WriteAt(s, pos, bytes) ==
    the([padded \in {IF Len(s) < pos THEN s \o Zeros(pos - Len(s)) ELSE s} |->
        Vec([i \in 1..Max(Len(padded), pos + Len(bytes)) |->
                IF i > pos /\ i <= pos + Len(bytes) THEN bytes[i - pos]
                ELSE padded[i]])])

\* Object::write to the stream out, whose cursor is at cur.
\* [res, why, obj, stream]: the Object is the one update left.
Write(o, bld, out, cur) ==
    the([u \in {Update(o, bld)} |->
    IF u.res # "ok" THEN [res |-> u.res, why |-> u.why, obj |-> o, stream |-> out]
    ELSE
    the([n \in {u.obj} |->
    the([h \in {n.header} |->
    \* the header, at the cursor
    the([hbytes \in {HeaderWrite(h)} |->
    the([s1 \in {WriteAt(out, cur, hbytes)} |->
    \* the program headers, from e_phoff
    the([phbytes \in {Flatten([i \in 1..Len(n.segments) |->
                    ProgramHeaderWrite(h.e_ident.ei_class, h.e_ident.ei_data,
                                       n.segments[i])])} |->
    the([s2 \in {IF n.segments = <<>> THEN s1 ELSE WriteAt(s1, h.e_phoff, phbytes)} |->
    \* the section bodies, one after the other from where the cursor is
    the([bodies \in {Flatten([i \in 1..Len(n.sections) |-> n.sections[i].body])} |->
    the([s3 \in {IF n.sections = <<>> THEN s2
        ELSE WriteAt(s2, h.e_phoff + Len(phbytes), bodies)} |->
    \* the section headers, from e_shoff
    the([shbytes \in {Flatten([i \in 1..Len(n.sections) |->
                    SectionHeaderWrite(h.e_ident.ei_class, h.e_ident.ei_data,
                                       n.sections[i].header)])} |->
    [res |-> "ok", why |-> "", obj |-> n,
     stream |-> IF n.sections = <<>> THEN s3 ELSE WriteAt(s3, h.e_shoff, shbytes)]
    ])])])])])])])])])])

\* Read::read_exact of n bytes at offset pos fails when the source ends first.
ReadExactFails(src, pos, n) ==
    n > 0 /\ (pos > Len(src) \/ n > Len(src) - pos)

\* The names of the entries whose name offsets are offs, resolved in table:
\* slicing the table from an offset past its end panics, read_cstr fails on
\* bytes that are not UTF-8.  The first failure ends the loop.
RECURSIVE ResolveNames(_, _, _)
ResolveNames(offs, table, i) ==
    IF i > Len(offs) THEN [res |-> "ok", names |-> <<>>]
    ELSE IF offs[i] > Len(table) THEN [res |-> "panic", names |-> <<>>]
    ELSE the([nm \in {CstrBytes(table, offs[i])} |->
         IF ~Utf8Valid(nm) THEN [res |-> "Utf8Error", names |-> <<>>]
         ELSE the([r \in {ResolveNames(offs, table, i + 1)} |->
              IF r.res = "ok" THEN [res |-> "ok", names |-> <<nm>> \o r.names]
              ELSE r])])

\* The entries inserted one by one into the map.
RECURSIVE InsertAll(_, _)
InsertAll(map, entries) ==
    IF entries = <<>> THEN map
    ELSE the([m \in {MapInsert(map, Head(entries))} |-> InsertAll(m, Tail(entries))])

\* Object::read.  [res, why, obj]
Read(src, bld) ==
    LET Fail(r, w) == [res |-> r, why |-> w, obj |-> <<>>]
    IN
    the([hr \in {HeaderRead(src)} |->
    IF hr.res # "ok" THEN Fail(hr.res, hr.why)
    ELSE
    the([h \in {hr.header} |->
    the([class \in {h.e_ident.ei_class} |->
    the([data \in {h.e_ident.ei_data} |->
    \* program headers
    the([segs \in {Vec([i \in 1..h.e_phnum |->
                ProgramHeaderRead(class, data, src,
                                  h.e_phoff + (i - 1) * ProgramHeaderSize(class))])} |->
    \* section headers and bodies
    the([shdrs \in {Vec([i \in 1..h.e_shnum |->
                SectionHeaderRead(class, data, src,
                                  h.e_shoff + (i - 1) * SectionHeaderSize(class))])} |->
    IF \E i \in 1..h.e_shnum : ReadExactFails(src, shdrs[i].sh_offset, shdrs[i].sh_size)
        THEN Fail("UnexpectedEof", "section body")
    ELSE
    the([sects \in {Vec([i \in 1..h.e_shnum |->
                [header |-> shdrs[i],
                 body |-> SubSeq(src, shdrs[i].sh_offset + 1,
                                 shdrs[i].sh_offset + shdrs[i].sh_size)]])} |->
    \* section names
    IF h.e_shstrndx >= h.e_shnum THEN Fail("panic", "e_shstrndx")
    ELSE
    the([shstrtab \in {sects[h.e_shstrndx + 1]} |->
    the([shnames \in {Vec([i \in 1..Len(sects) |-> shdrs[i].sh_name])} |->
    the([shtable \in {shstrtab.body} |->
    the([snames \in {ResolveNames(shnames, shtable, 1)} |->
    IF snames.res # "ok" THEN Fail(snames.res, "section name")
    ELSE
    the([entries \in {Vec([i \in 1..Len(sects) |->
                [name |-> snames.names[i],
                 header |-> sects[i].header,
                 body |-> sects[i].body]])} |->
    the([secmap \in {InsertAll(<<>>, entries)} |->
    \* symbols
    the([symi \in {IndexOf(secmap, SYMTAB)} |->
    IF symi = 0 THEN Fail("panic", "no .symtab")
    ELSE
    the([symtab \in {secmap[symi]} |->
    IF symtab.header.sh_entsize = 0 THEN Fail("panic", "sh_entsize")
    ELSE
    the([nsyms \in {symtab.header.sh_size \div symtab.header.sh_entsize} |->
    the([symbody \in {symtab.body} |->
    the([syms \in {Vec([i \in 1..nsyms |->
                SymbolRead(class, data, symbody, (i - 1) * SymbolSize(class))])} |->
    \* symbol names
    the([stri \in {IndexOf(secmap, STRTAB)} |->
    IF stri = 0 THEN Fail("panic", "no .strtab")
    ELSE
    the([strtab \in {secmap[stri]} |->
    the([ynameoffs \in {Vec([i \in 1..nsyms |-> syms[i].sym_name])} |->
    the([ytable \in {strtab.body} |->
    the([ynames \in {ResolveNames(ynameoffs, ytable, 1)} |->
    IF ynames.res # "ok" THEN Fail(ynames.res, "symbol name")
    ELSE
    the([symentries \in {Vec([i \in 1..nsyms |-> [name |-> ynames.names[i], sym |-> syms[i]]])} |->
    the([symmap \in {InsertAll(<<>>, symentries)} |->
    the([raw \in {[header |-> h, segments |-> segs, sections |-> secmap,
         symbols |-> symmap,
         shstrtab |-> <<shstrtab>>,
         strtab |-> <<[header |-> strtab.header, body |-> strtab.body]>>]} |->
    \* finalize
    the([u \in {Update(raw, bld)} |->
    IF u.res # "ok" THEN Fail(u.res, u.why)
    ELSE [res |-> "ok", why |-> "", obj |-> u.obj]
    ])])])])])])])])])])])])])])])])])])])])])])])])])])])

-----------------------------------------------------------------------------
(* The life cycle of an Object: the caller builds one, edits its public    *)
(* fields, and the crate updates, writes and reads it.  A stream lives from *)
(* the write that fills it to the read that parses it: the next edit or    *)
(* update finds it closed.                                                 *)

MaxEdits    == 2
MaxSegments == 2
MaxSymbols  == 2

TEXT == <<46, 116, 101, 120, 116>>   \* ".text"

ExtraNames == {TEXT}
SectionNames == {SYMTAB, STRTAB, SHSTRTAB} \cup ExtraNames
Aligns     == {0, 1, 16}
SegTypes   == {1, PT_INTERP, PT_PHDR}
SymNames   == {<<>>, <<97>>, <<98, 99>>}   \* "", "a", "bc"

\* What a stream holds before a write that does not start at its beginning.
HeldLen == 4
Held == Vec([i \in 1..HeldLen |-> 255])

\* Where a caller places the program header table: behind the file header, or
\* a distance further on.
PhoffGap == 32
Phoffs(class) == {HeaderSize(class), HeaderSize(class) + PhoffGap}

\* A header as a caller fills it in for the class: the three entry sizes are
\* those of the codecs, the program headers follow the file header.
NewHeader(class, data) ==
    [e_ident |-> [ei_magic |-> ELFMAG, ei_class |-> class, ei_data |-> data,
                  ei_version |-> 1, ei_osabi |-> 0, ei_abiversion |-> 0,
                  ei_pad |-> Zeros(7)],
     e_type |-> 2, e_machine |-> 62, e_version |-> 1, e_entry |-> 4198400,
     e_phoff |-> HeaderSize(class), e_shoff |-> 0, e_flags |-> 0,
     e_ehsize |-> HeaderSize(class), e_phentsize |-> ProgramHeaderSize(class),
     e_phnum |-> 0, e_shentsize |-> SectionHeaderSize(class),
     e_shnum |-> 0, e_shstrndx |-> 0]

\* Section::new(header), under the name the caller inserts it with.
NewSection(name, type, align, entsize) ==
    [name |-> name,
     header |-> [sh_name |-> 0, sh_type |-> type, sh_flags |-> 0, sh_addr |-> 0,
                 sh_offset |-> 0, sh_size |-> 0, sh_link |-> 0, sh_info |-> 0,
                 sh_addralign |-> align, sh_entsize |-> entsize],
     body |-> <<>>]

\* Segment::new(header)
NewSegment(type) ==
    [p_type |-> type, p_flags |-> 4, p_offset |-> 792, p_vaddr |-> 4195096,
     p_paddr |-> 4195096, p_filesz |-> 28, p_memsz |-> 28, p_align |-> 1]

NewSymbol(name) ==
    [name |-> name,
     sym |-> [sym_name |-> 0, sym_info |-> 18, sym_other |-> 0, sym_shndx |-> 1,
              sym_value |-> 4198400 + 16 * Len(name), sym_size |-> 4 + Len(name)]]

\* The section a caller inserts under a name: a symbol table, a string table,
\* or code of two bytes.
SectionFor(name, class, align) ==
    IF name = SYMTAB THEN NewSection(name, 2, align, SymbolSize(class))
    ELSE IF name \in {STRTAB, SHSTRTAB} THEN NewSection(name, 3, align, 0)
    ELSE [NewSection(name, 1, align, 0) EXCEPT !.body = <<144, 195>>,
                                               !.header.sh_size = 2]

\* Object::new(), then the header and the three sections update requires.
NewObject(class, data) ==
    [header   |-> NewHeader(class, data),
     segments |-> <<>>,
     sections |-> << SectionFor(SYMTAB, class, W(class)),
                     SectionFor(STRTAB, class, 1),
                     SectionFor(SHSTRTAB, class, 1) >>,
     symbols  |-> <<>>,
     shstrtab |-> <<>>,
     strtab   |-> <<>>]

Init ==
    /\ \E c \in Classes, d \in Datas : obj = NewObject(c, d)
    /\ stream = <<>>
    /\ op = "new"
    /\ result = "ok"
    /\ build \in {"debug", "release"}
    /\ edits = 0
    /\ codec = CodecIdle

Alive == result = "ok" /\ op \in {"new", "edit", "update", "write", "read"}

Edit(o) ==
    /\ Alive
    /\ edits < MaxEdits
    /\ obj' = o
    /\ edits' = edits + 1
    /\ op' = "edit"
    /\ stream' = <<>>
    /\ UNCHANGED <<result, build, codec>>

\* segments.push(Segment::new(..))
AddSegment ==
    /\ Len(obj.segments) < MaxSegments
    /\ \E t \in SegTypes :
          Edit([obj EXCEPT !.segments = Append(@, NewSegment(t))])

\* segments.remove(i)
RemoveSegment ==
    \E i \in 1..Len(obj.segments) :
        Edit([obj EXCEPT !.segments = RemoveAt(@, i)])

\* sections.insert(name, section) with a body
AddSection ==
    \E name \in SectionNames, a \in Aligns :
        /\ IndexOf(obj.sections, name) = 0
        /\ Edit([obj EXCEPT !.sections =
                    MapInsert(@, SectionFor(name, obj.header.e_ident.ei_class, a))])

\* sections.shift_remove(name)
RemoveSection ==
    \E i \in 1..Len(obj.sections) :
        Edit([obj EXCEPT !.sections = RemoveAt(@, i)])

\* a section moved to another name, at its position
RenameSection ==
    \E i \in 1..Len(obj.sections), name \in ExtraNames :
        /\ IndexOf(obj.sections, name) = 0
        /\ Edit([obj EXCEPT !.sections[i].name = name])

\* symbols.insert(name, symbol)
AddSymbol ==
    /\ Len(obj.symbols) < MaxSymbols
    /\ \E name \in SymNames :
          /\ IndexOf(obj.symbols, name) = 0
          /\ Edit([obj EXCEPT !.symbols = MapInsert(@, NewSymbol(name))])

\* symbols.shift_remove(name)
RemoveSymbol ==
    \E i \in 1..Len(obj.symbols) :
        Edit([obj EXCEPT !.symbols = RemoveAt(@, i)])

\* a symbol moved to another name, at its position
RenameSymbol ==
    \E i \in 1..Len(obj.symbols), name \in SymNames :
        /\ IndexOf(obj.symbols, name) = 0
        /\ Edit([obj EXCEPT !.symbols[i].name = name])

\* header.e_phoff = off: the caller places the program header table
SetPhoff ==
    \E off \in Phoffs(obj.header.e_ident.ei_class) :
        /\ off # obj.header.e_phoff
        /\ Edit([obj EXCEPT !.header.e_phoff = off])

\* Object::update
DoUpdate ==
    /\ Alive
    /\ \E u \in {Update(obj, build)} :
          /\ obj' = u.obj
          /\ result' = u.res
    /\ op' = "update"
    /\ stream' = <<>>
    /\ UNCHANGED <<build, edits, codec>>

\* Object::write to an empty stream
DoWrite ==
    /\ Alive
    /\ \E w \in {Write(obj, build, <<>>, 0)} :
          /\ obj' = w.obj
          /\ stream' = w.stream
          /\ result' = w.res
    /\ op' = "write"
    /\ UNCHANGED <<build, edits, codec>>

\* Object::write to a stream that holds bytes already, its cursor behind them
DoWriteAppend ==
    /\ Alive
    /\ \E w \in {Write(obj, build, Held, Len(Held))} :
          /\ obj' = w.obj
          /\ stream' = w.stream
          /\ result' = w.res
    /\ op' = "append"
    /\ UNCHANGED <<build, edits, codec>>

\* Object::read of the stream
DoRead ==
    /\ result = "ok"
    /\ op \in {"write", "file", "damage"}
    /\ \E r \in {Read(stream, build)} :
          /\ obj' = IF r.res = "ok" THEN r.obj ELSE obj
          /\ result' = r.res
    /\ op' = "read"
    /\ UNCHANGED <<stream, build, edits, codec>>

Next ==
    \/ AddSegment
    \/ RemoveSegment
    \/ AddSection
    \/ RemoveSection
    \/ RenameSection
    \/ AddSymbol
    \/ RemoveSymbol
    \/ RenameSymbol
    \/ SetPhoff
    \/ DoUpdate
    \/ DoWrite
    \/ DoWriteAppend
    \/ DoRead

Spec == Init /\ [][Next]_vars

-----------------------------------------------------------------------------
(* Reading a file: the image of a well-formed Object, as it is or after    *)
(* one byte of it was replaced or its end was cut off.                     *)

\* The Objects whose images are the files: the smallest one, and one with
\* segments, symbols and a section of code.
FileObject(class, data, v) ==
    IF v = 1 THEN NewObject(class, data)
    ELSE [NewObject(class, data) EXCEPT
            !.segments = <<NewSegment(PT_PHDR), NewSegment(PT_INTERP)>>,
            !.symbols  = <<NewSymbol(<<97>>), NewSymbol(<<98, 99>>)>>,
            !.sections = Append(@, SectionFor(TEXT, class, 1))]

\* The file a caller gets from an Object it has brought up to date.
Image(o) ==
    the([a \in {o} |->
    the([u \in {Update(a, "release").obj} |->
        Write(u, "release", <<>>, 0).stream])])

\* The place (0-based) of the lowest byte of field f of a structure at base.
LowByte(layout, endian, base, f) ==
    LET i == LayoutIndex(layout, f)
    IN  base + LayoutOffset(layout, i) + (IF endian = "Little" THEN 0 ELSE layout[i][2] - 1)

\* <<place, byte>>: the bytes of an image that one damage replaces.
Damages(s) ==
    the([o \in {Read(s, "release").obj} |->
    the([h \in {o.header} |->
    the([class \in {h.e_ident.ei_class} |->
    the([data \in {h.e_ident.ei_data} |->
    the([hl \in {HeaderWriteLayout(class)} |->
    the([sl \in {SectionHeaderWriteLayout(class)} |->
    the([strs \in {o.sections[IndexOf(o.sections, SHSTRTAB)]} |->
    the([symt \in {o.sections[IndexOf(o.sections, SYMTAB)]} |->
    the([shdr \in {Vec([k \in 1..h.e_shnum |-> h.e_shoff + (k - 1) * SectionHeaderSize(class)])} |->
        {<<0, 0>>}
        \cup {<<LowByte(hl, data, IdentSize, "e_shstrndx"), b>> : b \in {0, h.e_shnum}}
        \cup {<<LowByte(hl, data, IdentSize, "e_shnum"), 0>>}
        \cup {<<LowByte(hl, data, IdentSize, "e_phnum"), h.e_phnum + 1>>}
        \cup {<<LowByte(sl, data, shdr[k], "sh_name"), b>> :
                 k \in 1..h.e_shnum, b \in {Len(strs.body), 255}}
        \cup {<<LowByte(sl, data, shdr[k], "sh_size"), 255>> : k \in 1..h.e_shnum}
        \cup {<<LowByte(sl, data, shdr[IndexOf(o.sections, SYMTAB)], "sh_entsize"), 0>>}
        \cup {<<strs.header.sh_offset + o.sections[k].header.sh_name + 1, b>> :
                 k \in 1..h.e_shnum, b \in {120, 255}}
        \cup {<<strs.header.sh_offset + Len(strs.body) - 1, 1>>}
        \cup {<<LowByte(SymbolWriteLayout(class), data, symt.header.sh_offset, "sym_name"),
                255>>}
        \* a second symbol that shares the name of the first
        \cup {<<LowByte(SymbolWriteLayout(class), data,
                        symt.header.sh_offset + (k - 1) * SymbolSize(class), "sym_name"),
                o.symbols[1].sym.sym_name>> : k \in 2..Len(o.symbols)}
        \* a section that shares the name of the name table
        \cup {<<LowByte(sl, data, shdr[k], "sh_name"), strs.header.sh_name>> :
                 k \in {IndexOf(o.sections, TEXT)} \ {0}}
    ])])])])])])])])])

\* The lengths a file is cut to.
Cuts(s) ==
    the([h \in {HeaderRead(s).header} |->
        {0, 3, 10, h.e_ehsize - 1, h.e_ehsize + 1,
         h.e_shoff - 1, h.e_shoff + 3, Len(s) - 1}])

ReadInit ==
    /\ \E c \in Classes, d \in Datas, v \in {1, 2} : stream = Image(FileObject(c, d, v))
    /\ obj = ObjIdle
    /\ op = "file"
    /\ result = "ok"
    /\ build \in {"debug", "release"}
    /\ edits = 0
    /\ codec = CodecIdle

DamageByte ==
    /\ op = "file"
    /\ \E d \in Damages(stream) :
          /\ d[1] < Len(stream)
          /\ stream[d[1] + 1] # d[2]
          /\ stream' = [stream EXCEPT ![d[1] + 1] = d[2]]
    /\ op' = "damage"
    /\ UNCHANGED <<obj, result, build, edits, codec>>

Truncate ==
    /\ op = "file"
    /\ \E n \in Cuts(stream) :
          /\ n < Len(stream)
          /\ stream' = SubSeq(stream, 1, n)
    /\ op' = "damage"
    /\ UNCHANGED <<obj, result, build, edits, codec>>

ReadNext ==
    \/ DamageByte
    \/ Truncate
    \/ DoRead
    \/ RemoveSection
    \/ RemoveSegment
    \/ DoUpdate
    \/ DoWrite

SpecRead == ReadInit /\ [][ReadNext]_vars

-----------------------------------------------------------------------------
(* The properties.                                                         *)

\* The sizes of the ELF32 / ELF64 structures.
StructSize(kind, class) ==
    CASE kind = "Header"        -> IF class = "Bits32" THEN 52 ELSE 64
      [] kind = "ProgramHeader" -> IF class = "Bits32" THEN 32 ELSE 56
      [] kind = "SectionHeader" -> IF class = "Bits32" THEN 40 ELSE 64
      [] kind = "Symbol"        -> IF class = "Bits32" THEN 16 ELSE 24

CodecIntact ==
    /\ codec.pc \in {"written", "read"}
    /\ ~codec.damaged
    /\ codec.kind = "Header" => codec.value.e_ident.ei_magic = ELFMAG

\* C5: for each of the four structures, each class and each endianness, write
\* emits and reports the structure's fixed size for the class (0x40 for a
\* 64-bit Header), and read of exactly those bytes succeeds and returns a
\* value equal to the original, field by field.
C5_CodecRoundTrip ==
    CodecIntact =>
        /\ Len(codec.bytes) = codec.written
        /\ codec.written = StructSize(codec.kind, codec.class)
        /\ codec.pc = "read" => codec.res = "ok" /\ codec.back = codec.value

C5_Witness ==
    /\ CodecIntact
    /\ codec.pc = "read"
    /\ codec.kind = "ProgramHeader"
    /\ codec.class = "Bits32"
    /\ codec.data = "Big"
    /\ codec.value.p_flags # codec.value.p_offset
    /\ codec.value.p_offset > 65536
    /\ codec.back = codec.value

\* C7: Header::read on bytes whose magic, class byte or endianness byte is
\* invalid returns the error InvalidMagic, UnsupportedClass or
\* UnsupportedEndianness respectively, and never panics.
C7_HeaderReadRejects ==
    (codec.pc = "read" /\ codec.kind = "Header") =>
        LET magic == ReadBytes(codec.bytes, 0, 4)
            cb    == ReadBytes(codec.bytes, 4, 1)[1]
            db    == ReadBytes(codec.bytes, 5, 1)[1]
        IN  /\ codec.res # "panic"
            /\ magic # ELFMAG => codec.res = "InvalidMagic"
            /\ (magic = ELFMAG /\ cb \notin {1, 2}) => codec.res = "UnsupportedClass"
            /\ (magic = ELFMAG /\ cb \in {1, 2} /\ db \notin {1, 2})
                   => codec.res = "UnsupportedEndianness"

\* The Object was brought up to date by a successful update: the one called
\* directly, or the one at the start of write or at the end of read.
Normalized == result = "ok" /\ op \in {"update", "write", "read"}

Body(o, name) == find_section(o, name)[1].body

\* The header fields, the segments, the section names and bodies and the
\* symbols of two Objects are the same.
LogicalEq(a, b) ==
    /\ a.header = b.header
    /\ a.segments = b.segments
    /\ Names(a.sections) = Names(b.sections)
    /\ \A i \in 1..Len(a.sections) : a.sections[i].body = b.sections[i].body
    /\ a.symbols = b.symbols

\* C1: writing a well-formed Object to an empty stream and reading the bytes
\* back yields an Object with the same header fields, segments, section names
\* and bodies, and symbols.
C1_RoundTrip ==
    (op = "write" /\ result = "ok") =>
        LET r == Read(stream, build)
        IN  r.res = "ok" /\ LogicalEq(obj, r.obj)

\* What C2 compares between two Objects.
SameLayout(a, b) ==
    /\ a.header.e_phnum = b.header.e_phnum
    /\ a.header.e_shnum = b.header.e_shnum
    /\ a.header.e_shstrndx = b.header.e_shstrndx
    /\ a.header.e_shoff = b.header.e_shoff
    /\ Names(a.sections) = Names(b.sections)
    /\ \A i \in 1..Len(a.sections) :
          /\ a.sections[i].header.sh_name = b.sections[i].header.sh_name
          /\ a.sections[i].header.sh_offset = b.sections[i].header.sh_offset
          /\ a.sections[i].header.sh_size = b.sections[i].header.sh_size
    /\ Names(a.symbols) = Names(b.symbols)
    /\ \A i \in 1..Len(a.symbols) :
          a.symbols[i].sym.sym_name = b.symbols[i].sym.sym_name
    /\ Body(a, STRTAB) = Body(b, STRTAB)
    /\ Body(a, SHSTRTAB) = Body(b, SHSTRTAB)
    /\ Len(a.segments) = Len(b.segments)
    /\ \A i \in 1..Len(a.segments) :
          a.segments[i].p_type \in {PT_PHDR, PT_INTERP} => a.segments[i] = b.segments[i]

\* C2: after a successful update, a second update with no mutation in between
\* succeeds and leaves the header counts and offsets, the sections' name
\* offsets, offsets and sizes, the symbols' name offsets, both name tables and
\* the PT_PHDR and PT_INTERP segments as the first one left them.
C2_UpdateIdempotent ==
    Normalized =>
        LET u == Update(obj, build)
        IN  u.res = "ok" /\ SameLayout(obj, u.obj)

\* An update has run on an Object with a symbol and a PT_INTERP segment, and
\* a second update still rewrites something (the symbol table).
C2_Witness ==
    /\ op = "update" /\ result = "ok"
    /\ obj.symbols # <<>>
    /\ \E i \in 1..Len(obj.segments) : obj.segments[i].p_type = PT_INTERP
    /\ Update(obj, build).obj # obj

\* C3: after every successful update, the offset of every section whose
\* alignment is neither 0 nor 1 is a multiple of that alignment.
C3_AlignmentLaw ==
    Normalized =>
        \A i \in 1..Len(obj.sections) :
            LET hd == obj.sections[i].header
            IN  hd.sh_addralign \notin {0, 1} => hd.sh_offset % hd.sh_addralign = 0

\* A section aligned to 16 follows a section that does not end on a multiple
\* of 16.
C3_Witness ==
    /\ op = "update" /\ result = "ok"
    /\ \E i \in 2..Len(obj.sections) :
          /\ obj.sections[i].header.sh_addralign = 16
          /\ (obj.sections[i - 1].header.sh_offset + Len(obj.sections[i - 1].body)) % 16 # 0
          /\ obj.sections[i].header.sh_offset > 0

\* The C string at offset off of the table is the name, terminator included
\* inside the table.
NameAt(table, off, name) ==
    /\ off + Len(name) + 1 <= Len(table)
    /\ CstrBytes(table, off) = name
    /\ table[off + Len(name) + 1] = 0

\* C4: after every successful update, byte 0 of .strtab and of .shstrtab is
\* zero, every symbol's sym_name is the offset in .strtab of its name, every
\* section's sh_name is the offset in .shstrtab of its name, each as a
\* null-terminated string inside the table, and no two symbols and no two
\* sections share an offset.
C4_NameTableIntegrity ==
    Normalized =>
        LET strtab == Body(obj, STRTAB)
            shstr  == Body(obj, SHSTRTAB)
        IN  /\ strtab[1] = 0
            /\ shstr[1] = 0
            /\ \A i \in 1..Len(obj.symbols) :
                  NameAt(strtab, obj.symbols[i].sym.sym_name, obj.symbols[i].name)
            /\ \A i \in 1..Len(obj.sections) :
                  NameAt(shstr, obj.sections[i].header.sh_name, obj.sections[i].name)
            /\ \A i, j \in 1..Len(obj.symbols) :
                  i # j => obj.symbols[i].sym.sym_name # obj.symbols[j].sym.sym_name
            /\ \A i, j \in 1..Len(obj.sections) :
                  i # j => obj.sections[i].header.sh_name # obj.sections[j].header.sh_name

\* Two symbols, the first with the empty name, and a section added by the
\* caller.
C4_Witness ==
    /\ op = "update" /\ result = "ok"
    /\ Len(obj.symbols) = 2
    /\ obj.symbols[1].name = <<>>
    /\ obj.symbols[2].sym.sym_name = 2

\* C6: an update of an Object with one segment more than e_phnum counts sets
\* p_filesz and p_memsz of every PT_PHDR segment to the new count times
\* e_phentsize, adds one e_phentsize to p_offset of every PT_INTERP segment,
\* and leaves the other segments as they are.
C6_SpecialSegmentPatch ==
    [][ ( /\ Alive
          /\ Len(obj.segments) = obj.header.e_phnum + 1
          /\ op' = "update"
          /\ result' = "ok" )
        => /\ Len(obj'.segments) = Len(obj.segments)
           /\ \A i \in 1..Len(obj.segments) :
                 LET a  == obj.segments[i]
                     b  == obj'.segments[i]
                     sz == Len(obj.segments) * obj.header.e_phentsize
                 IN  IF a.p_type = PT_PHDR
                     THEN b = [a EXCEPT !.p_filesz = sz, !.p_memsz = sz]
                     ELSE IF a.p_type = PT_INTERP
                     THEN b = [a EXCEPT !.p_offset = a.p_offset + obj.header.e_phentsize]
                     ELSE b = a ]_vars

\* A PT_INTERP segment was appended to an Object whose one segment, a
\* PT_PHDR, e_phnum counted, and update has run.
C6_Witness ==
    /\ op = "update" /\ result = "ok"
    /\ Len(obj.segments) = 2
    /\ obj.segments[1].p_type = PT_PHDR
    /\ obj.segments[1].p_filesz = 2 * obj.header.e_phentsize
    /\ obj.segments[2].p_type = PT_INTERP
    /\ obj.segments[2].p_offset = NewSegment(PT_INTERP).p_offset + obj.header.e_phentsize

\* C10: after every successful update, e_phnum is the number of segments,
\* e_shnum the number of sections and e_shstrndx the position of .shstrtab in
\* the section mapping.
C10_HeaderCounts ==
    Normalized =>
        /\ obj.header.e_phnum = Len(obj.segments)
        /\ obj.header.e_shnum = Len(obj.sections)
        /\ obj.header.e_shstrndx = IndexOf(obj.sections, SHSTRTAB) - 1

\* .symtab was removed and inserted again, which moved .shstrtab up.
C10_Witness ==
    /\ op = "update" /\ result = "ok"
    /\ IndexOf(obj.sections, SHSTRTAB) = 2
    /\ obj.header.e_shstrndx = 1
    /\ obj.header.e_shnum = 3

\* What the bytes of a file declare, each field as Header::read and
\* SectionHeader::read decode it.
FileHeader(s) == HeaderRead(s).header

FileSectionHeaders(s) ==
    LET h     == FileHeader(s)
        class == h.e_ident.ei_class
    IN  Vec([i \in 1..h.e_shnum |->
               SectionHeaderRead(class, h.e_ident.ei_data, s,
                                 h.e_shoff + (i - 1) * SectionHeaderSize(class))])

FileBody(s, hd) == SubSeq(s, hd.sh_offset + 1, hd.sh_offset + hd.sh_size)

\* The header, a program header, a section header, a section body or the
\* index e_shstrndx of the file lies past the end of the stream.
StructurePastEnd(s) ==
    LET h     == FileHeader(s)
        class == h.e_ident.ei_class
        shdrs == FileSectionHeaders(s)
    IN  \/ Len(s) < HeaderSize(class)
        \/ h.e_phnum > 0 /\ h.e_phoff + h.e_phnum * ProgramHeaderSize(class) > Len(s)
        \/ h.e_shnum > 0 /\ h.e_shoff + h.e_shnum * SectionHeaderSize(class) > Len(s)
        \/ \E i \in 1..h.e_shnum :
              shdrs[i].sh_size > 0 /\ shdrs[i].sh_offset + shdrs[i].sh_size > Len(s)
        \/ h.e_shstrndx >= h.e_shnum

\* The name table of the sections, where the structure lies inside the
\* stream.
FileShstrtab(s) == FileBody(s, FileSectionHeaders(s)[FileHeader(s).e_shstrndx + 1])

\* A section's name offset lies past the end of the name table.
SectionNamePastEnd(s) ==
    LET shdrs == FileSectionHeaders(s)
    IN  \E i \in 1..Len(shdrs) : shdrs[i].sh_name >= Len(FileShstrtab(s))

\* The section names of a file whose name offsets lie inside the name table.
FileSectionNames(s) ==
    LET shdrs == FileSectionHeaders(s)
        table == FileShstrtab(s)
    IN  Vec([i \in 1..Len(shdrs) |-> CstrBytes(table, shdrs[i].sh_name)])

\* The header (0 where there is none) of the first section of that name.
FileSectionNamed(s, name) ==
    LET names == FileSectionNames(s)
        hits  == {i \in 1..Len(names) : names[i] = name}
    IN  IF hits = {} THEN 0
        ELSE CHOOSE i \in hits : \A j \in hits : i <= j

\* A symbol's name offset lies past the end of .strtab.
SymbolNamePastEnd(s) ==
    LET h     == FileHeader(s)
        class == h.e_ident.ei_class
        shdrs == FileSectionHeaders(s)
        symi  == FileSectionNamed(s, SYMTAB)
        stri  == FileSectionNamed(s, STRTAB)
    IN  /\ symi # 0
        /\ stri # 0
        /\ shdrs[symi].sh_entsize # 0
        /\ \E k \in 1..(shdrs[symi].sh_size \div shdrs[symi].sh_entsize) :
              SymbolRead(class, h.e_ident.ei_data, FileBody(s, shdrs[symi]),
                         (k - 1) * SymbolSize(class)).sym_name >= shdrs[stri].sh_size

\* The magic, the class and the endianness of the file are valid.
ValidIdent(s) == HeaderRead(s).res = "ok"

OutOfBounds(s) ==
    \/ StructurePastEnd(s)
    \/ ~StructurePastEnd(s) /\ SectionNamePastEnd(s)
    \/ ~StructurePastEnd(s) /\ ~SectionNamePastEnd(s) /\ SymbolNamePastEnd(s)

Required == {SYMTAB, STRTAB, SHSTRTAB}

MissingRequired(names) == \E n \in Required : \A i \in 1..Len(names) : names[i] # n

\* A file that stays inside its bounds, names its sections in UTF-8, and has
\* no section of a required name.
FileLacksRequired(s) ==
    /\ ValidIdent(s)
    /\ ~StructurePastEnd(s)
    /\ ~SectionNamePastEnd(s)
    /\ \A i \in 1..Len(FileSectionNames(s)) : Utf8Valid(FileSectionNames(s)[i])
    /\ MissingRequired(FileSectionNames(s))

\* C8: Object::read of an otherwise valid image with no .symtab, no .strtab
\* or no .shstrtab, and update and write of an Object without one of them,
\* return a MissingRequiredSection error and never abort.
C8_MissingSectionReported ==
    /\ (op = "read" /\ FileLacksRequired(stream)) => result = "MissingRequiredSection"
    /\ (op \in {"update", "write"} /\ MissingRequired(Names(obj.sections)))
          => result = "MissingRequiredSection"

\* C9: Object::read returns an error, and neither aborts nor succeeds, when
\* the header, a program header, a section header, a section body, e_shstrndx
\* or a name offset of the file lies past the end of the stream or of its
\* table.
C9_OutOfBoundsRejected ==
    (op = "read" /\ ValidIdent(stream) /\ OutOfBounds(stream))
        => result \notin {"ok", "panic"}

\* C11: after a successful Object::read the Object has as many segments as
\* the file's header counts program headers, as many sections as it counts
\* section headers, and as many symbols as the file's .symtab has entries
\* (its size divided by its entry size); the magic is 7F 45 4C 46 and the
\* cached shstrtab and strtab are both present.
C11_ReadPreservesSizes ==
    (op = "read" /\ result = "ok") =>
        LET h     == FileHeader(stream)
            shdrs == FileSectionHeaders(stream)
            symi  == FileSectionNamed(stream, SYMTAB)
        IN  /\ Len(obj.segments) = h.e_phnum
            /\ Len(obj.sections) = h.e_shnum
            /\ symi # 0
            /\ shdrs[symi].sh_entsize # 0
            /\ Len(obj.symbols) = shdrs[symi].sh_size \div shdrs[symi].sh_entsize
            /\ obj.header.e_ident.ei_magic = ELFMAG
            /\ Len(obj.shstrtab) = 1
            /\ Len(obj.strtab) = 1

\* The field order and widths of the ELF standard's structures: Elf32_Ehdr /
\* Elf64_Ehdr after e_ident, Elf32_Phdr / Elf64_Phdr, Elf32_Shdr / Elf64_Shdr,
\* Elf32_Sym / Elf64_Sym.
ElfLayout(kind, class) ==
    LET w == IF class = "Bits32" THEN 4 ELSE 8
    IN  CASE kind = "Header" ->
               << <<"e_type", 2>>, <<"e_machine", 2>>, <<"e_version", 4>>,
                  <<"e_entry", w>>, <<"e_phoff", w>>, <<"e_shoff", w>>,
                  <<"e_flags", 4>>, <<"e_ehsize", 2>>, <<"e_phentsize", 2>>,
                  <<"e_phnum", 2>>, <<"e_shentsize", 2>>, <<"e_shnum", 2>>,
                  <<"e_shstrndx", 2>> >>
          [] kind = "ProgramHeader" /\ class = "Bits32" ->
               << <<"p_type", 4>>, <<"p_offset", 4>>, <<"p_vaddr", 4>>,
                  <<"p_paddr", 4>>, <<"p_filesz", 4>>, <<"p_memsz", 4>>,
                  <<"p_flags", 4>>, <<"p_align", 4>> >>
          [] kind = "ProgramHeader" /\ class = "Bits64" ->
               << <<"p_type", 4>>, <<"p_flags", 4>>, <<"p_offset", 8>>,
                  <<"p_vaddr", 8>>, <<"p_paddr", 8>>, <<"p_filesz", 8>>,
                  <<"p_memsz", 8>>, <<"p_align", 8>> >>
          [] kind = "SectionHeader" ->
               << <<"sh_name", 4>>, <<"sh_type", 4>>, <<"sh_flags", w>>,
                  <<"sh_addr", w>>, <<"sh_offset", w>>, <<"sh_size", w>>,
                  <<"sh_link", 4>>, <<"sh_info", 4>>, <<"sh_addralign", w>>,
                  <<"sh_entsize", w>> >>
          [] kind = "Symbol" /\ class = "Bits32" ->
               << <<"sym_name", 4>>, <<"sym_value", 4>>, <<"sym_size", 4>>,
                  <<"sym_info", 1>>, <<"sym_other", 1>>, <<"sym_shndx", 2>> >>
          [] kind = "Symbol" /\ class = "Bits64" ->
               << <<"sym_name", 4>>, <<"sym_info", 1>>, <<"sym_other", 1>>,
                  <<"sym_shndx", 2>>, <<"sym_value", 8>>, <<"sym_size", 8>> >>

\* C12: every codec encodes and decodes its fields in the order and widths of
\* the ELF standard for the class: the bytes a write emits are the standard
\* encoding of the value, and a read returns what the standard layout holds
\* at each field's place (32-bit program header with p_flags after p_memsz,
\* 64-bit with p_flags after p_type; 32-bit symbol as name, value, size, info,
\* other, section index, 64-bit as name, info, other, section index, value,
\* size).
C12_StandardLayout ==
    (codec.pc \in {"written", "read"} /\ ~codec.damaged) =>
        LET std  == ElfLayout(codec.kind, codec.class)
            base == IF codec.kind = "Header" THEN IdentSize ELSE 0
            std_value == DecodeFields(std, codec.data, codec.bytes, base)
        IN  /\ SubSeq(codec.bytes, base + 1, Len(codec.bytes))
                   = EncodeFields(std, codec.data, codec.value)
            /\ (codec.pc = "read" /\ codec.res = "ok") =>
                   \A f \in DOMAIN std_value : codec.back[f] = std_value[f]

\* x is the least value >= from that is a multiple of a; from itself when a
\* is 0.
LeastAligned(x, from, a) ==
    /\ x >= from
    /\ IF a = 0 THEN x = from ELSE x % a = 0 /\ x - from < a

\* Where section i of the Object ends; for i = 0, where the program header
\* table ends if it follows the file header.
SectionEnd(o, i) ==
    IF i = 0 THEN o.header.e_ehsize + o.header.e_phentsize * o.header.e_phnum
    ELSE o.sections[i].header.sh_offset + Len(o.sections[i].body)

\* C13: after every successful update, in mapping order, each section's
\* sh_offset is the least multiple of its sh_addralign (no rounding for 0)
\* that is >= the end of the section before it, and >= e_ehsize +
\* e_phentsize * e_phnum for the first; offsets do not decrease, no two
\* sections' byte ranges overlap, and e_shoff is the least multiple of 16
\* that is >= the end of the last section.
C13_PackedLayout ==
    Normalized =>
        LET n == Len(obj.sections)
        IN  /\ \A i \in 1..n :
                  LeastAligned(obj.sections[i].header.sh_offset, SectionEnd(obj, i - 1),
                               obj.sections[i].header.sh_addralign)
            /\ \A i, j \in 1..n :
                  i < j => /\ obj.sections[i].header.sh_offset
                                <= obj.sections[j].header.sh_offset
                           /\ SectionEnd(obj, i) <= obj.sections[j].header.sh_offset
            /\ LeastAligned(obj.header.e_shoff, SectionEnd(obj, n), 16)

\* An update has laid out four sections behind a program header table: one
\* aligned to 16 starts after padding behind a section with a body, and the
\* section header table starts after padding too.
C13_Witness ==
    /\ op = "update" /\ result = "ok"
    /\ obj.header.e_phnum > 0
    /\ Len(obj.sections) = 4
    /\ \E i \in 2..4 :
          /\ obj.sections[i].header.sh_addralign = 16
          /\ obj.sections[i - 1].body # <<>>
          /\ obj.sections[i].header.sh_offset > SectionEnd(obj, i - 1)
          /\ obj.sections[i].body # <<>>
    /\ obj.header.e_shoff > SectionEnd(obj, 4)

\* The byte ranges [a, a + m) and [b, b + n) share a byte.
Overlap(a, m, b, n) == m > 0 /\ n > 0 /\ a < b + n /\ b < a + m

\* C14: after every successful update, whatever e_phoff the caller chose, the
\* region [e_phoff, e_phoff + e_phnum * e_phentsize) where write places the
\* program headers lies before the first section, and neither a section's
\* bytes [sh_offset, sh_offset + body length) nor the section header table at
\* e_shoff overlaps it.
C14_SectionsAfterProgramHeaders ==
    Normalized =>
        LET h      == obj.header
            phsize == h.e_phnum * h.e_phentsize
        IN  /\ \A i \in 1..Len(obj.sections) :
                  /\ obj.sections[i].header.sh_offset >= h.e_phoff + phsize
                  /\ ~Overlap(h.e_phoff, phsize, obj.sections[i].header.sh_offset,
                              Len(obj.sections[i].body))
            /\ ~Overlap(h.e_phoff, phsize, h.e_shoff, h.e_shnum * h.e_shentsize)

\* The bytes of the stream s from offset pos are bs.
BytesAt(s, pos, bs) ==
    /\ pos + Len(bs) <= Len(s)
    /\ SubSeq(s, pos + 1, pos + Len(bs)) = bs

\* C15: Object::write runs update, then emits the file header at offset 0 of
\* the stream wherever its cursor was, the program headers at e_phoff in
\* segment order, the section bodies in mapping order behind them, and the
\* section headers at e_shoff in mapping order; the header at offset 0
\* carries the e_phnum, e_shnum, e_shstrndx and e_shoff that update set.
C15_WriteOrdering ==
    (op \in {"write", "append"} /\ result = "ok") =>
        LET h     == obj.header
            class == h.e_ident.ei_class
            data  == h.e_ident.ei_data
            phs   == Flatten([i \in 1..Len(obj.segments) |->
                        ProgramHeaderWrite(class, data, obj.segments[i])])
            shs   == Flatten([i \in 1..Len(obj.sections) |->
                        SectionHeaderWrite(class, data, obj.sections[i].header)])
            bodies == Flatten([i \in 1..Len(obj.sections) |-> obj.sections[i].body])
        IN  /\ h.e_phnum = Len(obj.segments)
            /\ h.e_shnum = Len(obj.sections)
            /\ h.e_shstrndx = IndexOf(obj.sections, SHSTRTAB) - 1
            /\ BytesAt(stream, 0, HeaderWrite(h))
            /\ FileHeader(stream) = h
            /\ BytesAt(stream, h.e_phoff, phs)
            /\ BytesAt(stream, h.e_phoff + Len(phs), bodies)
            /\ BytesAt(stream, h.e_shoff, shs)

\* C16: in any sequence of segment additions and removals and updates, each
\* update of an Object that has its required sections completes without
\* aborting and changes p_offset of every PT_INTERP segment by exactly
\* e_phentsize * (new count - old count), a decrease when segments were
\* removed, with no 16-bit wrap-around.
C16_InterpPatchAnyEdits ==
    [][ ( /\ Alive
          /\ ~MissingRequired(Names(obj.sections))
          /\ op' = "update" )
        => /\ result' = "ok"
           /\ Len(obj'.segments) = Len(obj.segments)
           /\ \A i \in 1..Len(obj.segments) :
                 obj.segments[i].p_type = PT_INTERP =>
                    obj'.segments[i].p_offset
                       = obj.segments[i].p_offset
                         + obj.header.e_phentsize
                             * (Len(obj.segments) - obj.header.e_phnum) ]_vars

\* C17: after Object::write to an empty stream, for every section the bytes
\* of the output at [sh_offset, sh_offset + body length), sh_offset being the
\* one the section's header in the output declares, are the section's body,
\* and the section header table at e_shoff covers no byte of a section body.
C17_DeclaredOffsetsHonest ==
    (op = "write" /\ result = "ok") =>
        LET h     == FileHeader(stream)
            shdrs == FileSectionHeaders(stream)
        IN  /\ Len(shdrs) = Len(obj.sections)
            /\ \A i \in 1..Len(obj.sections) :
                  /\ BytesAt(stream, shdrs[i].sh_offset, obj.sections[i].body)
                  /\ ~Overlap(h.e_shoff, h.e_shnum * h.e_shentsize,
                              shdrs[i].sh_offset, Len(obj.sections[i].body))

\* The i-th record of the Object's .symtab body, as Symbol::read decodes it.
SymtabRecord(o, i) ==
    SymbolRead(o.header.e_ident.ei_class, o.header.e_ident.ei_data,
               Body(o, SYMTAB), (i - 1) * SymbolSize(o.header.e_ident.ei_class))

\* C18: after every successful update, whatever the caller did to the symbol
\* mapping before it, .symtab's rebuilt body holds one record per symbol, the
\* i-th record's name offset is the i-th symbol's sym_name and resolves in
\* the rebuilt .strtab body to that symbol's key, and .symtab's sh_size is
\* the length of its body.
C18_SymtabAgreesWithStrtab ==
    Normalized =>
        LET symtab == find_section(obj, SYMTAB)[1]
            class  == obj.header.e_ident.ei_class
        IN  /\ symtab.header.sh_size = Len(symtab.body)
            /\ Len(symtab.body) = Len(obj.symbols) * SymbolSize(class)
            /\ \A i \in 1..Len(obj.symbols) :
                  /\ SymtabRecord(obj, i).sym_name = obj.symbols[i].sym.sym_name
                  /\ NameAt(Body(obj, STRTAB), SymtabRecord(obj, i).sym_name,
                            obj.symbols[i].name)

====
